---- MODULE Spec2Model ----
(***************************************************************************)
(* Connect 4 coordinated through ZooKeeper.                                *)
(*                                                                         *)
(* Two programs live in the repository:                                    *)
(*   src/Connect-4.py      class JogoConnect4  (variante "JogoConnect4")   *)
(*   src/src/connect4.py   class Connect4Game  (variante "Connect4Game")   *)
(*                                                                         *)
(* Every ZooKeeper request (get, set, create, delete, get_children, lock   *)
(* acquire/release) is one atomic step; the threads of one process (main   *)
(* thread, kazoo's watch dispatcher, one thread per threading.Timer)       *)
(* interleave freely.  Timers are untimed: a running timer may expire at   *)
(* any moment.                                                             *)
(***************************************************************************)
EXTENDS Integers, Sequences, FiniteSets, TLC

(* ---------------------------- bounds ----------------------------------- *)
\* how many times the process of one identity may be launched
MaxInicios == 2
\* how many timers may expire, and how many times a user may press Ctrl-C
MaxExpiracoes == 2
MaxInterrupcoes == 1
\* the win checks on their own: length of the painted segments, pieces on a
\* board built by drops
MaxSegmento == 4
MaxPecas == 4

(* ------------------------- program constants --------------------------- *)
Linhas == 6
Colunas == 7

None == "None"
Vazio == ""
player1 == "player1"
player2 == "player2"
espectador == "espectador"
Jogadores == {player1, player2}
\* a second process launched with the identity player1 typed at its prompt
duplicado == "duplicado"
Participantes == Jogadores \cup {duplicado}
Procs == Participantes \cup {espectador}
\* self.meu_id of process p
Id(p) == IF p = duplicado THEN player1 ELSE p

TabuleiroVazio == [r \in 0..(Linhas - 1) |-> [c \in 0..(Colunas - 1) |-> None]]

(***************************************************************************)
(* The environment of one run: what the users type at the column prompt    *)
(* (one stream per identity), how often each process is launched, how many *)
(* timers expire and how many times a user presses Ctrl-C.  connect4.py    *)
(* never resets its znodes, so a run of it may continue a game of earlier  *)
(* sessions: anteriores are the columns played in them.                    *)
(***************************************************************************)
Cenario(e1, e2, n1, n2, ne, x, i) ==
  [anteriores |-> <<>>,
   entrada |-> [p \in Procs |-> IF p = player1 THEN e1
                                ELSE IF p = player2 THEN e2 ELSE <<>>],
   inicios |-> [p \in Procs |-> IF p = player1 THEN n1
                                ELSE IF p = player2 THEN n2
                                ELSE IF p = espectador THEN ne ELSE 0],
   expiracoes |-> x,
   interrupcoes |-> i]

Cenarios ==
  { \* a whole game: player1 stacks column 0, player2 column 1
    Cenario(<<0, 0, 7, 0, 0>>, <<1, 1, 1, 1>>, 1, 1, 0, 0, 0),
    \* forfeiture timers racing each other and a move
    Cenario(<<0>>, <<>>, 1, 1, 0, MaxExpiracoes, 0),
    \* a player leaves and comes back
    Cenario(<<>>, <<>>, 1, MaxInicios, 0, 1, MaxInterrupcoes),
    \* a spectator
    Cenario(<<>>, <<>>, 1, 1, 1, 1, 0),
    \* a second match after the first one has ended
    Cenario(<<>>, <<>>, 2, 2, 0, 1, 0),
    \* a player leaves while a turn timer is expiring
    Cenario(<<>>, <<>>, 1, 1, 0, MaxExpiracoes, MaxInterrupcoes),
    \* two processes are given the identity player1
    [Cenario(<<>>, <<>>, 1, 1, 0, 0, 0) EXCEPT !.inicios[duplicado] = 1] }

VARIABLES
  variante,         \* which of the two programs is running
  cenario,          \* the environment of this run
  \* ---- znodes under /connect4 (Connect-4.py)
  jogadores,        \* children of /connect4/jogadores
  dono,             \* the process whose session owns each (ephemeral) child
  vez,              \* /connect4/vez
  vencedor,         \* /connect4/vencedor
  motivo_vitoria,   \* /connect4/motivo_vitoria
  tabuleiro_remoto, \* /connect4/tabuleiro
  lock_reinicio,    \* holder of Lock /connect4/lock_reinicio
  eleicao,          \* holder of the lock inside Election /connect4/eleicao
  \* ---- per process (Connect-4.py)
  pc,               \* position of the main thread
  tabuleiro,        \* self.tabuleiro
  jogo_acabou,      \* self.jogo_acabou
  minha_vez,        \* self.minha_vez
  timer_turno,      \* self.timer_turno
  timer_conexao,    \* self.timer_conexao
  wo,               \* position of a timer thread inside _vencer_por_wo
  coluna,           \* the column chosen at the prompt
  linha,            \* the row the piece was put on
  fila,             \* watch events delivered to the session, not yet dispatched
  armado,           \* znodes on which the session has a watch set
  entrada,          \* what is still to be typed at the prompt
  inicios,          \* launches so far
  expiracoes,       \* timer expiries so far
  interrupcoes,     \* Ctrl-C so far
  limpou,           \* history: this process ran _limpar_para_novo_jogo
  \* ---- znodes under /connect4 (connect4.py)
  zk_players,       \* children of /connect4/players
  zk_board,         \* /connect4/board
  zk_turn,          \* /connect4/turn
  zk_winner,        \* /connect4/winner
  move_lock,        \* holder of Lock /connect4/move_lock
  \* ---- per process (connect4.py)
  gpc,              \* position of the main thread
  board,            \* self.board
  my_turn_event,    \* self.my_turn_event
  game_over_event,  \* self.game_over_event
  col,              \* the column chosen at the prompt
  row,              \* the row the piece was put on
  gfila,            \* watch events delivered to the session, not yet dispatched
  garmado,          \* znodes on which the session has a watch set
  gentrada,         \* what is still to be typed at the prompt
  ginicios,         \* launches so far
  ginterrupcoes,    \* Ctrl-C so far
  \* ---- the win checks taken on their own
  grade,            \* the board the check is applied to
  retorno           \* what the check returned, for which identity

varsJ == <<jogadores, dono, vez, vencedor, motivo_vitoria, tabuleiro_remoto,
           lock_reinicio, eleicao, pc, tabuleiro, jogo_acabou, minha_vez,
           timer_turno, timer_conexao, wo, coluna, linha, fila, armado,
           entrada, inicios, expiracoes, interrupcoes, limpou>>

varsG == <<zk_players, zk_board, zk_turn, zk_winner, move_lock, gpc, board,
           my_turn_event, game_over_event, col, row, gfila, garmado,
           gentrada, ginicios, ginterrupcoes>>

varsV == <<grade, retorno>>

vars == <<variante, cenario, varsJ, varsG, varsV>>

(* ------------------------------ helpers -------------------------------- *)
\* a step of Connect-4.py leaves the znodes and processes of connect4.py
\* alone, and the other way round
EmJ ==
  variante = "JogoConnect4" /\ UNCHANGED <<variante, cenario, varsG, varsV>>
EmG ==
  variante = "Connect4Game" /\ UNCHANGED <<variante, cenario, varsJ, varsV>>

Outro(p) == IF Id(p) = player1 THEN player2 ELSE player1

\* a write to znode no fires the one-shot watch of every session watching it
NovaFila(no) ==
  [q \in Procs |-> IF no \in armado[q] THEN Append(fila[q], no) ELSE fila[q]]
NovoArmado(no) == [q \in Procs |-> armado[q] \ {no}]

\* threading.Timer.is_alive()
Vivo(t) == t \in {"running", "firing"}
\* threading.Timer.cancel(): no effect once the function has been entered
Cancelar(t) == IF t = "running" THEN "dead" ELSE t

\* the search for the free row run from the top row downwards, as
\* "for linha in range(6)" would (a faulty variant, against which C9 is tested)
LinhaLivreDeCima(b, c) ==
  LET livres == {r \in 0..(Linhas - 1) : b[r][c] = None}
  IN  IF livres = {} THEN -1
      ELSE CHOOSE r \in livres : \A s \in livres : r <= s

\* the row the piece lands on: for linha in range(5, -1, -1)
LinhaLivre(b, c) ==
  LET livres == {r \in 0..(Linhas - 1) : b[r][c] = None}
  IN  IF livres = {} THEN -1
      ELSE CHOOSE r \in livres : \A s \in livres : s <= r

Soltar(b, c, j) ==
  IF LinhaLivre(b, c) = -1 THEN b
  ELSE [b EXCEPT ![LinhaLivre(b, c)][c] = j]

\* _verificar_se_ganhei with the horizontal scan stopping one column short,
\* as "for c in range(3)" would (a faulty variant, against which C18 is
\* tested)
GanhouSemUltimaJanela(b, j) ==
  \/ \E r \in 0..5, c \in 0..2 : \A i \in 0..3 : b[r][c + i] = j
  \/ \E c \in 0..6, r \in 0..2 : \A i \in 0..3 : b[r + i][c] = j
  \/ \E r \in 0..2, c \in 0..3 : \A i \in 0..3 : b[r + i][c + i] = j
  \/ \E r \in 3..5, c \in 0..3 : \A i \in 0..3 : b[r - i][c + i] = j

\* _verificar_se_ganhei
Ganhou(b, j) ==
  \/ \E r \in 0..5, c \in 0..3 : \A i \in 0..3 : b[r][c + i] = j
  \/ \E c \in 0..6, r \in 0..2 : \A i \in 0..3 : b[r + i][c] = j
  \/ \E r \in 0..2, c \in 0..3 : \A i \in 0..3 : b[r + i][c + i] = j
  \/ \E r \in 3..5, c \in 0..3 : \A i \in 0..3 : b[r - i][c + i] = j

(* ------------------------------- Init ---------------------------------- *)
InitJ ==
  /\ jogadores = {}
  /\ dono = [j \in Jogadores |-> None]
  /\ vez = Vazio
  /\ vencedor = Vazio
  /\ motivo_vitoria = Vazio
  /\ tabuleiro_remoto = TabuleiroVazio
  /\ lock_reinicio = None
  /\ eleicao = None
  /\ pc = [p \in Procs |-> "off"]
  /\ tabuleiro = [p \in Procs |-> TabuleiroVazio]
  /\ jogo_acabou = [p \in Procs |-> FALSE]
  /\ minha_vez = [p \in Procs |-> FALSE]
  /\ timer_turno = [p \in Procs |-> "none"]
  /\ timer_conexao = [p \in Procs |-> "none"]
  /\ wo = [p \in Procs |-> [m \in {"tempo", "desconexao"} |-> "idle"]]
  /\ coluna = [p \in Procs |-> -1]
  /\ linha = [p \in Procs |-> -1]
  /\ fila = [p \in Procs |-> <<>>]
  /\ armado = [p \in Procs |-> {}]
  /\ entrada = cenario.entrada
  /\ inicios = [p \in Procs |-> 0]
  /\ expiracoes = 0
  /\ interrupcoes = 0
  /\ limpou = [p \in Procs |-> FALSE]

(* --------------------- JogoConnect4: main thread ----------------------- *)
\* __init__: connect, _criar_estrutura_base, load the board
Construir(p) ==
  /\ EmJ
  /\ pc[p] = "off"
  /\ inicios[p] < cenario.inicios[p]
  /\ inicios' = [inicios EXCEPT ![p] = @ + 1]
  /\ tabuleiro' = [tabuleiro EXCEPT ![p] = tabuleiro_remoto]
  /\ pc' = [pc EXCEPT ![p] = IF p = espectador THEN "assistir" ELSE "lock"]
  /\ UNCHANGED <<jogadores, dono, vez, vencedor, motivo_vitoria, tabuleiro_remoto,
                 lock_reinicio, eleicao, jogo_acabou, minha_vez, timer_turno,
                 timer_conexao, wo, coluna, linha, fila, armado, entrada, limpou,
                 expiracoes, interrupcoes>>

\* iniciar: with Lock(... "/connect4/lock_reinicio")
AdquirirLock(p) ==
  /\ EmJ
  /\ pc[p] = "lock"
  /\ lock_reinicio = None
  /\ lock_reinicio' = p
  /\ pc' = [pc EXCEPT ![p] = "verificar"]
  /\ UNCHANGED <<jogadores, dono, vez, vencedor, motivo_vitoria, tabuleiro_remoto,
                 eleicao, tabuleiro, jogo_acabou, minha_vez, timer_turno,
                 timer_conexao, wo, coluna, linha, fila, armado, entrada, inicios,
                 limpou,
                 expiracoes, interrupcoes>>

\* jogadores_ativos = get_children(...); if not jogadores_ativos: ...
VerificarJogadores(p) ==
  /\ EmJ
  /\ pc[p] = "verificar"
  /\ IF jogadores = {}
       THEN /\ pc' = [pc EXCEPT ![p] = "limpar_vencedor"]
            /\ limpou' = [limpou EXCEPT ![p] = TRUE]
            /\ UNCHANGED lock_reinicio
       ELSE /\ pc' = [pc EXCEPT ![p] = "registrar"]
            /\ lock_reinicio' = None
            /\ UNCHANGED limpou
  /\ UNCHANGED <<jogadores, dono, vez, vencedor, motivo_vitoria, tabuleiro_remoto,
                 eleicao, tabuleiro, jogo_acabou, minha_vez, timer_turno,
                 timer_conexao, wo, coluna, linha, fila, armado, entrada, inicios,
                 expiracoes, interrupcoes>>

\* _limpar_para_novo_jogo, one ZooKeeper request per step
LimparVencedor(p) ==
  /\ EmJ
  /\ pc[p] = "limpar_vencedor"
  /\ vencedor' = Vazio
  /\ fila' = NovaFila("vencedor")
  /\ armado' = NovoArmado("vencedor")
  /\ pc' = [pc EXCEPT ![p] = "limpar_vez"]
  /\ UNCHANGED <<jogadores, dono, vez, motivo_vitoria, tabuleiro_remoto,
                 lock_reinicio, eleicao, tabuleiro, jogo_acabou, minha_vez,
                 timer_turno, timer_conexao, wo, coluna, linha, entrada, inicios,
                 limpou,
                 expiracoes, interrupcoes>>

LimparVez(p) ==
  /\ EmJ
  /\ pc[p] = "limpar_vez"
  /\ vez' = Vazio
  /\ fila' = NovaFila("vez")
  /\ armado' = NovoArmado("vez")
  /\ pc' = [pc EXCEPT ![p] = "limpar_motivo"]
  /\ UNCHANGED <<jogadores, dono, vencedor, motivo_vitoria, tabuleiro_remoto,
                 lock_reinicio, eleicao, tabuleiro, jogo_acabou, minha_vez,
                 timer_turno, timer_conexao, wo, coluna, linha, entrada, inicios,
                 limpou,
                 expiracoes, interrupcoes>>

LimparMotivo(p) ==
  /\ EmJ
  /\ pc[p] = "limpar_motivo"
  /\ motivo_vitoria' = Vazio
  /\ pc' = [pc EXCEPT ![p] = "limpar_tabuleiro"]
  /\ UNCHANGED <<jogadores, dono, vez, vencedor, tabuleiro_remoto, lock_reinicio,
                 eleicao, tabuleiro, jogo_acabou, minha_vez, timer_turno,
                 timer_conexao, wo, coluna, linha, fila, armado, entrada, inicios,
                 limpou,
                 expiracoes, interrupcoes>>

LimparTabuleiro(p) ==
  /\ EmJ
  /\ pc[p] = "limpar_tabuleiro"
  /\ tabuleiro_remoto' = TabuleiroVazio
  /\ fila' = NovaFila("tabuleiro")
  /\ armado' = NovoArmado("tabuleiro")
  /\ pc' = [pc EXCEPT ![p] = "limpar_jogadores"]
  /\ UNCHANGED <<jogadores, dono, vez, vencedor, motivo_vitoria, lock_reinicio,
                 eleicao, tabuleiro, jogo_acabou, minha_vez, timer_turno,
                 timer_conexao, wo, coluna, linha, entrada, inicios, limpou,
                 expiracoes, interrupcoes>>

\* for jogador in get_children(jogadores_path): delete(...)
LimparJogadores(p) ==
  /\ EmJ
  /\ pc[p] = "limpar_jogadores"
  /\ jogadores' = {}
  /\ dono' = [j \in Jogadores |-> None]
  /\ IF jogadores # {}
       THEN /\ fila' = NovaFila("jogadores")
            /\ armado' = NovoArmado("jogadores")
       ELSE UNCHANGED <<fila, armado>>
  /\ pc' = [pc EXCEPT ![p] = "recarregar"]
  /\ UNCHANGED <<vez, vencedor, motivo_vitoria, tabuleiro_remoto,
                 lock_reinicio, eleicao, tabuleiro, jogo_acabou, minha_vez,
                 timer_turno, timer_conexao, wo, coluna, linha, entrada, inicios,
                 limpou,
                 expiracoes, interrupcoes>>

\* self.tabuleiro = self._carregar_tabuleiro_remoto(); the lock is released
Recarregar(p) ==
  /\ EmJ
  /\ pc[p] = "recarregar"
  /\ tabuleiro' = [tabuleiro EXCEPT ![p] = tabuleiro_remoto]
  /\ lock_reinicio' = None
  /\ pc' = [pc EXCEPT ![p] = "registrar"]
  /\ UNCHANGED <<jogadores, dono, vez, vencedor, motivo_vitoria, tabuleiro_remoto,
                 eleicao, jogo_acabou, minha_vez, timer_turno, timer_conexao,
                 wo, coluna, linha, fila, armado, entrada, inicios, limpou,
                 expiracoes, interrupcoes>>

\* zk.create(f"/connect4/jogadores/{self.meu_id}", ephemeral=True)
Registrar(p) ==
  /\ EmJ
  /\ pc[p] = "registrar"
  /\ IF Id(p) \in jogadores
       THEN /\ pc' = [pc EXCEPT ![p] = "fim_erro"]
            /\ UNCHANGED <<jogadores, dono, fila, armado,
                 expiracoes, interrupcoes>>
       ELSE /\ jogadores' = jogadores \cup {Id(p)}
            /\ dono' = [dono EXCEPT ![Id(p)] = p]
            /\ fila' = NovaFila("jogadores")
            /\ armado' = NovoArmado("jogadores")
            /\ pc' = [pc EXCEPT ![p] = "barreira"]
  /\ UNCHANGED <<vez, vencedor, motivo_vitoria, tabuleiro_remoto,
                 lock_reinicio, eleicao, tabuleiro, jogo_acabou, minha_vez,
                 timer_turno, timer_conexao, wo, coluna, linha, entrada, inicios,
                 limpou,
                 expiracoes, interrupcoes>>

\* while len(get_children('/connect4/jogadores')) < 2: ...
Barreira(p) ==
  /\ EmJ
  /\ pc[p] = "barreira"
  /\ \/ /\ Cardinality(jogadores) >= 2
        /\ pc' = [pc EXCEPT ![p] = "verificar_vez"]
     \/ /\ Cardinality(jogadores) < 2 /\ jogo_acabou[p]
        /\ pc' = [pc EXCEPT ![p] = "fim"]
  /\ UNCHANGED <<jogadores, dono, vez, vencedor, motivo_vitoria, tabuleiro_remoto,
                 lock_reinicio, eleicao, tabuleiro, jogo_acabou, minha_vez,
                 timer_turno, timer_conexao, wo, coluna, linha, fila, armado,
                 entrada, inicios, limpou,
                 expiracoes, interrupcoes>>

\* if not self.zk.get('/connect4/vez')[0]: ...
VerificarVez(p) ==
  /\ EmJ
  /\ pc[p] = "verificar_vez"
  /\ pc' = [pc EXCEPT ![p] = IF vez = Vazio THEN "eleicao" ELSE "obs_vez"]
  /\ UNCHANGED <<jogadores, dono, vez, vencedor, motivo_vitoria, tabuleiro_remoto,
                 lock_reinicio, eleicao, tabuleiro, jogo_acabou, minha_vez,
                 timer_turno, timer_conexao, wo, coluna, linha, fila, armado,
                 entrada, inicios, limpou,
                 expiracoes, interrupcoes>>

\* Election.run(func) is "with self.lock: func()": every contender gets the
\* lock in turn and runs the leadership function
EntrarEleicao(p) ==
  /\ EmJ
  /\ pc[p] = "eleicao"
  /\ eleicao = None
  /\ eleicao' = p
  /\ pc' = [pc EXCEPT ![p] = "lider"]
  /\ UNCHANGED <<jogadores, dono, vez, vencedor, motivo_vitoria, tabuleiro_remoto,
                 lock_reinicio, tabuleiro, jogo_acabou, minha_vez,
                 timer_turno, timer_conexao, wo, coluna, linha, fila, armado,
                 entrada, inicios, limpou,
                 expiracoes, interrupcoes>>

\* _definir_primeiro_jogador, then the election lock is released
DefinirPrimeiroJogador(p) ==
  /\ EmJ
  /\ pc[p] = "lider"
  /\ vez' = Id(p)
  /\ fila' = NovaFila("vez")
  /\ armado' = NovoArmado("vez")
  /\ eleicao' = None
  /\ pc' = [pc EXCEPT ![p] = "obs_vez"]
  /\ UNCHANGED <<jogadores, dono, vencedor, motivo_vitoria, tabuleiro_remoto,
                 lock_reinicio, tabuleiro, jogo_acabou, minha_vez,
                 timer_turno, timer_conexao, wo, coluna, linha, entrada, inicios,
                 limpou,
                 expiracoes, interrupcoes>>

(* ------------------- JogoConnect4: watch callbacks --------------------- *)
\* _observar_turno(dados, stat)
ObservarTurno(p, dados) ==
  IF jogo_acabou[p] \/ dados = Vazio
    THEN UNCHANGED <<minha_vez, timer_turno>>
    ELSE IF dados = Id(p)
      THEN /\ timer_turno' = [timer_turno EXCEPT ![p] = Cancelar(@)]
           /\ minha_vez' = [minha_vez EXCEPT ![p] = TRUE]
      ELSE /\ minha_vez' = [minha_vez EXCEPT ![p] = FALSE]
           /\ timer_turno' = [timer_turno EXCEPT ![p] = "running"]

\* _observar_vencedor(dados, stat)
ObservarVencedor(p, dados) ==
  IF dados # Vazio /\ ~jogo_acabou[p]
    THEN /\ jogo_acabou' = [jogo_acabou EXCEPT ![p] = TRUE]
         /\ timer_turno' = [timer_turno EXCEPT ![p] = Cancelar(@)]
         /\ timer_conexao' = [timer_conexao EXCEPT ![p] = Cancelar(@)]
    ELSE UNCHANGED <<jogo_acabou, timer_turno, timer_conexao>>

\* _observar_jogadores with the "Oponente voltou!" branch leaving the grace
\* timer running (a faulty variant, against which C6 is tested)
ObservarJogadoresSemCancelar(p, filhos) ==
  IF jogo_acabou[p]
    THEN UNCHANGED <<timer_turno, timer_conexao>>
    ELSE IF Cardinality(filhos) < 2 /\ ~Vivo(timer_conexao[p])
      THEN /\ timer_turno' = [timer_turno EXCEPT ![p] = Cancelar(@)]
           /\ timer_conexao' = [timer_conexao EXCEPT ![p] = "running"]
      ELSE UNCHANGED <<timer_turno, timer_conexao>>

\* _observar_jogadores(jogadores)
ObservarJogadores(p, filhos) ==
  IF jogo_acabou[p]
    THEN UNCHANGED <<timer_turno, timer_conexao>>
    ELSE IF Cardinality(filhos) < 2 /\ ~Vivo(timer_conexao[p])
      THEN /\ timer_turno' = [timer_turno EXCEPT ![p] = Cancelar(@)]
           /\ timer_conexao' = [timer_conexao EXCEPT ![p] = "running"]
      ELSE IF Cardinality(filhos) >= 2 /\ Vivo(timer_conexao[p])
        THEN /\ timer_conexao' = [timer_conexao EXCEPT ![p] = Cancelar(@)]
             /\ UNCHANGED timer_turno
        ELSE UNCHANGED <<timer_turno, timer_conexao>>

\* _iniciar_observadores: each watch constructor calls its function once
\* with the current data and sets the watch
InstalarVez(p) ==
  /\ EmJ
  /\ pc[p] = "obs_vez"
  /\ ObservarTurno(p, vez)
  /\ armado' = [armado EXCEPT ![p] = @ \cup {"vez"}]
  /\ pc' = [pc EXCEPT ![p] = "obs_vencedor"]
  /\ UNCHANGED <<jogadores, dono, vez, vencedor, motivo_vitoria, tabuleiro_remoto,
                 lock_reinicio, eleicao, tabuleiro, jogo_acabou,
                 timer_conexao, wo, coluna, linha, fila, entrada, inicios, limpou,
                 expiracoes, interrupcoes>>

InstalarVencedor(p) ==
  /\ EmJ
  /\ pc[p] = "obs_vencedor"
  /\ ObservarVencedor(p, vencedor)
  /\ armado' = [armado EXCEPT ![p] = @ \cup {"vencedor"}]
  /\ pc' = [pc EXCEPT ![p] = IF p = espectador THEN "aguardar"
                                               ELSE "obs_jogadores"]
  /\ UNCHANGED <<jogadores, dono, vez, vencedor, motivo_vitoria, tabuleiro_remoto,
                 lock_reinicio, eleicao, tabuleiro, minha_vez, wo, coluna, linha,
                 fila, entrada, inicios, limpou,
                 expiracoes, interrupcoes>>

InstalarJogadores(p) ==
  /\ EmJ
  /\ pc[p] = "obs_jogadores"
  /\ ObservarJogadores(p, jogadores)
  /\ armado' = [armado EXCEPT ![p] =
                  IF jogo_acabou[p] THEN @ ELSE @ \cup {"jogadores"}]
  /\ pc' = [pc EXCEPT ![p] = "loop"]
  /\ UNCHANGED <<jogadores, dono, vez, vencedor, motivo_vitoria, tabuleiro_remoto,
                 lock_reinicio, eleicao, tabuleiro, jogo_acabou, minha_vez,
                 wo, coluna, linha, fila, entrada, inicios, limpou,
                 expiracoes, interrupcoes>>

\* assistir: @self.zk.DataWatch('/connect4/tabuleiro')
ObservarTabuleiroSpec(p) ==
  IF ~jogo_acabou[p]
    THEN tabuleiro' = [tabuleiro EXCEPT ![p] = tabuleiro_remoto]
    ELSE UNCHANGED tabuleiro

InstalarTabuleiro(p) ==
  /\ EmJ
  /\ pc[p] = "assistir"
  /\ ObservarTabuleiroSpec(p)
  /\ armado' = [armado EXCEPT ![p] = @ \cup {"tabuleiro"}]
  /\ pc' = [pc EXCEPT ![p] = "obs_vencedor"]
  /\ UNCHANGED <<jogadores, dono, vez, vencedor, motivo_vitoria, tabuleiro_remoto,
                 lock_reinicio, eleicao, jogo_acabou, minha_vez, timer_turno,
                 timer_conexao, wo, coluna, linha, fila, entrada, inicios, limpou,
                 expiracoes, interrupcoes>>

\* kazoo's dispatcher thread: takes the oldest event of the session, reads
\* the znode again (which sets the watch again) and calls the function
Despachar(p) ==
  /\ EmJ
  /\ fila[p] # <<>>
  /\ fila' = [fila EXCEPT ![p] = Tail(@)]
  /\ LET no == Head(fila[p]) IN
       \/ /\ no = "vez"
          /\ ObservarTurno(p, vez)
          /\ armado' = [armado EXCEPT ![p] = @ \cup {no}]
          /\ UNCHANGED <<jogo_acabou, timer_conexao, tabuleiro,
                 expiracoes, interrupcoes>>
       \/ /\ no = "vencedor"
          /\ ObservarVencedor(p, vencedor)
          /\ armado' = [armado EXCEPT ![p] = @ \cup {no}]
          /\ UNCHANGED <<minha_vez, tabuleiro,
                 expiracoes, interrupcoes>>
       \/ /\ no = "jogadores"
          /\ ObservarJogadores(p, jogadores)
          /\ armado' = [armado EXCEPT ![p] =
                          IF jogo_acabou[p] THEN @ ELSE @ \cup {no}]
          /\ UNCHANGED <<jogo_acabou, minha_vez, tabuleiro,
                 expiracoes, interrupcoes>>
       \/ /\ no = "tabuleiro"
          /\ ObservarTabuleiroSpec(p)
          /\ armado' = [armado EXCEPT ![p] = @ \cup {no}]
          /\ UNCHANGED <<jogo_acabou, minha_vez, timer_turno, timer_conexao,
                 expiracoes, interrupcoes>>
  /\ UNCHANGED <<jogadores, dono, vez, vencedor, motivo_vitoria, tabuleiro_remoto,
                 lock_reinicio, eleicao, pc, wo, coluna, linha, entrada, inicios,
                 limpou,
                 expiracoes, interrupcoes>>

(* ---------------------- JogoConnect4: timer threads -------------------- *)
\* threading.Timer expires and enters _vencer_por_wo(motivo):
\*   if not self.zk.get("/connect4/vencedor")[0]: ...
\* (two expiries of the same kind in one process write the same values, so
\*  the second waits for the first to leave the function)
\* the expiry without the read of vencedor at the head of _vencer_por_wo
\* (a faulty variant, against which C7 is tested)
ExpirarTurnoSemLer(p) ==
  /\ EmJ
  /\ timer_turno[p] = "running"
  /\ expiracoes < cenario.expiracoes
  /\ expiracoes' = expiracoes + 1
  /\ wo[p]["tempo"] = "idle"
  /\ timer_turno' = [timer_turno EXCEPT ![p] = "firing"]
  /\ wo' = [wo EXCEPT ![p]["tempo"] = "motivo"]
  /\ UNCHANGED <<jogadores, dono, vez, vencedor, motivo_vitoria, tabuleiro_remoto,
                 lock_reinicio, eleicao, pc, tabuleiro, jogo_acabou,
                 minha_vez, timer_conexao, coluna, linha, fila, armado, entrada,
                 inicios, interrupcoes, limpou>>

ExpirarTurno(p) ==
  /\ EmJ
  /\ timer_turno[p] = "running"
  /\ expiracoes < cenario.expiracoes
  /\ expiracoes' = expiracoes + 1
  /\ wo[p]["tempo"] = "idle"
  /\ IF vencedor = Vazio
       THEN /\ timer_turno' = [timer_turno EXCEPT ![p] = "firing"]
            /\ wo' = [wo EXCEPT ![p]["tempo"] = "motivo"]
       ELSE /\ timer_turno' = [timer_turno EXCEPT ![p] = "dead"]
            /\ UNCHANGED wo
  /\ UNCHANGED <<jogadores, dono, vez, vencedor, motivo_vitoria, tabuleiro_remoto,
                 lock_reinicio, eleicao, pc, tabuleiro, jogo_acabou,
                 minha_vez, timer_conexao, coluna, linha, fila, armado, entrada,
                 inicios, interrupcoes, limpou>>

ExpirarConexao(p) ==
  /\ EmJ
  /\ timer_conexao[p] = "running"
  /\ expiracoes < cenario.expiracoes
  /\ expiracoes' = expiracoes + 1
  /\ wo[p]["desconexao"] = "idle"
  /\ IF vencedor = Vazio
       THEN /\ timer_conexao' = [timer_conexao EXCEPT ![p] = "firing"]
            /\ wo' = [wo EXCEPT ![p]["desconexao"] = "motivo"]
       ELSE /\ timer_conexao' = [timer_conexao EXCEPT ![p] = "dead"]
            /\ UNCHANGED wo
  /\ UNCHANGED <<jogadores, dono, vez, vencedor, motivo_vitoria, tabuleiro_remoto,
                 lock_reinicio, eleicao, pc, tabuleiro, jogo_acabou,
                 minha_vez, timer_turno, coluna, linha, fila, armado, entrada,
                 inicios, interrupcoes, limpou>>

\* self.zk.set('/connect4/motivo_vitoria', motivo.encode())
WoMotivo(p, m) ==
  /\ EmJ
  /\ wo[p][m] = "motivo"
  /\ motivo_vitoria' = m
  /\ wo' = [wo EXCEPT ![p][m] = "vencedor"]
  /\ UNCHANGED <<jogadores, dono, vez, vencedor, tabuleiro_remoto, lock_reinicio,
                 eleicao, pc, tabuleiro, jogo_acabou, minha_vez, timer_turno,
                 timer_conexao, coluna, linha, fila, armado, entrada, inicios,
                 limpou,
                 expiracoes, interrupcoes>>

\* self.zk.set('/connect4/vencedor', self.meu_id.encode()); the thread ends
WoVencedor(p, m) ==
  /\ EmJ
  /\ wo[p][m] = "vencedor"
  /\ vencedor' = Id(p)
  /\ fila' = NovaFila("vencedor")
  /\ armado' = NovoArmado("vencedor")
  /\ wo' = [wo EXCEPT ![p][m] = "idle"]
  /\ IF m = "tempo"
       THEN /\ timer_turno' = [timer_turno EXCEPT ![p] =
                                 IF @ = "firing" THEN "dead" ELSE @]
            /\ UNCHANGED timer_conexao
       ELSE /\ timer_conexao' = [timer_conexao EXCEPT ![p] =
                                   IF @ = "firing" THEN "dead" ELSE @]
            /\ UNCHANGED timer_turno
  /\ UNCHANGED <<jogadores, dono, vez, motivo_vitoria, tabuleiro_remoto,
                 lock_reinicio, eleicao, pc, tabuleiro, jogo_acabou,
                 minha_vez, coluna, linha, entrada, inicios, limpou,
                 expiracoes, interrupcoes>>

(* ----------------- JogoConnect4: main loop and the move ---------------- *)
\* while not self.jogo_acabou.is_set(): if self.minha_vez.wait(timeout=1.0)
Loop(p) ==
  /\ EmJ
  /\ pc[p] = "loop"
  /\ jogo_acabou[p] \/ minha_vez[p]
  /\ pc' = [pc EXCEPT ![p] = IF jogo_acabou[p] THEN "resultado" ELSE "carregar"]
  /\ UNCHANGED <<jogadores, dono, vez, vencedor, motivo_vitoria, tabuleiro_remoto,
                 lock_reinicio, eleicao, tabuleiro, jogo_acabou, minha_vez,
                 timer_turno, timer_conexao, wo, coluna, linha, fila, armado,
                 entrada, inicios, limpou,
                 expiracoes, interrupcoes>>

\* _fazer_minha_jogada: self.tabuleiro = self._carregar_tabuleiro_remoto()
Carregar(p) ==
  /\ EmJ
  /\ pc[p] = "carregar"
  /\ tabuleiro' = [tabuleiro EXCEPT ![p] = tabuleiro_remoto]
  /\ pc' = [pc EXCEPT ![p] = "entrada"]
  /\ UNCHANGED <<jogadores, dono, vez, vencedor, motivo_vitoria, tabuleiro_remoto,
                 lock_reinicio, eleicao, jogo_acabou, minha_vez, timer_turno,
                 timer_conexao, wo, coluna, linha, fila, armado, entrada, inicios,
                 limpou,
                 expiracoes, interrupcoes>>

\* the prompt: a typed column is taken if it is 0..6 and not full, anything
\* else prompts again; the wait for the input thread ends the move when the
\* game is over
Entrada(p) ==
  /\ EmJ
  /\ pc[p] = "entrada"
  /\ \/ /\ entrada[p] # <<>>
        /\ entrada' = [entrada EXCEPT ![p] = Tail(@)]
        /\ LET c == Head(entrada[p]) IN
             IF c >= 0 /\ c <= 6 /\ tabuleiro[p][0][c] = None
               THEN /\ coluna' = [coluna EXCEPT ![p] = c]
                    /\ pc' = [pc EXCEPT ![p] = "soltar"]
               ELSE UNCHANGED <<coluna, pc>>
     \/ /\ jogo_acabou[p]
        /\ pc' = [pc EXCEPT ![p] = "limpar_sinal"]
        /\ UNCHANGED <<coluna, entrada>>
  /\ UNCHANGED <<jogadores, dono, vez, vencedor, motivo_vitoria, tabuleiro_remoto,
                 lock_reinicio, eleicao, tabuleiro, jogo_acabou, minha_vez,
                 timer_turno, timer_conexao, wo, linha, fila, armado, inicios,
                 limpou,
                 expiracoes, interrupcoes>>

\* self.tabuleiro[linha][coluna] = self.meu_id; self._salvar_tabuleiro_remoto()
SoltarPeca(p) ==
  /\ EmJ
  /\ pc[p] = "soltar"
  /\ IF LinhaLivre(tabuleiro[p], coluna[p]) = -1
       THEN /\ pc' = [pc EXCEPT ![p] = "limpar_sinal"]
            /\ UNCHANGED <<linha, tabuleiro, tabuleiro_remoto, fila, armado>>
       ELSE /\ linha' = [linha EXCEPT ![p] = LinhaLivre(tabuleiro[p], coluna[p])]
            /\ tabuleiro' = [tabuleiro EXCEPT ![p] = Soltar(@, coluna[p], Id(p))]
            /\ tabuleiro_remoto' = Soltar(tabuleiro[p], coluna[p], Id(p))
            /\ fila' = NovaFila("tabuleiro")
            /\ armado' = NovoArmado("tabuleiro")
            /\ pc' = [pc EXCEPT ![p] = "publicar"]
  /\ UNCHANGED <<jogadores, dono, vez, vencedor, motivo_vitoria, lock_reinicio,
                 eleicao, jogo_acabou, minha_vez, timer_turno, timer_conexao,
                 wo, coluna, entrada, inicios, limpou,
                 expiracoes, interrupcoes>>

\* the move writing vez after a winning drop as well (a faulty variant,
\* against which C14 is tested)
PublicarComVez(p) ==
  /\ EmJ
  /\ pc[p] = "publicar"
  /\ IF Ganhou(tabuleiro[p], Id(p))
       THEN /\ motivo_vitoria' = "vitoria"
            /\ vez' = Outro(p)
            /\ fila' = NovaFila("vez")
            /\ armado' = NovoArmado("vez")
            /\ pc' = [pc EXCEPT ![p] = "publicar_vencedor"]
       ELSE /\ vez' = Outro(p)
            /\ fila' = NovaFila("vez")
            /\ armado' = NovoArmado("vez")
            /\ pc' = [pc EXCEPT ![p] = "limpar_sinal"]
            /\ UNCHANGED motivo_vitoria
  /\ UNCHANGED <<jogadores, dono, vencedor, tabuleiro_remoto, lock_reinicio,
                 eleicao, tabuleiro, jogo_acabou, minha_vez, timer_turno,
                 timer_conexao, wo, coluna, linha, entrada, inicios, limpou,
                 expiracoes, interrupcoes>>

\* if self._verificar_se_ganhei(): set motivo_vitoria ... else: set vez
Publicar(p) ==
  /\ EmJ
  /\ pc[p] = "publicar"
  /\ IF Ganhou(tabuleiro[p], Id(p))
       THEN /\ motivo_vitoria' = "vitoria"
            /\ pc' = [pc EXCEPT ![p] = "publicar_vencedor"]
            /\ UNCHANGED <<vez, fila, armado,
                 expiracoes, interrupcoes>>
       ELSE /\ vez' = Outro(p)
            /\ fila' = NovaFila("vez")
            /\ armado' = NovoArmado("vez")
            /\ pc' = [pc EXCEPT ![p] = "limpar_sinal"]
            /\ UNCHANGED motivo_vitoria
  /\ UNCHANGED <<jogadores, dono, vencedor, tabuleiro_remoto, lock_reinicio,
                 eleicao, tabuleiro, jogo_acabou, minha_vez, timer_turno,
                 timer_conexao, wo, coluna, linha, entrada, inicios, limpou,
                 expiracoes, interrupcoes>>

\* self.zk.set("/connect4/vencedor", self.meu_id.encode())
PublicarVencedor(p) ==
  /\ EmJ
  /\ pc[p] = "publicar_vencedor"
  /\ vencedor' = Id(p)
  /\ fila' = NovaFila("vencedor")
  /\ armado' = NovoArmado("vencedor")
  /\ pc' = [pc EXCEPT ![p] = "limpar_sinal"]
  /\ UNCHANGED <<jogadores, dono, vez, motivo_vitoria, tabuleiro_remoto,
                 lock_reinicio, eleicao, tabuleiro, jogo_acabou, minha_vez,
                 timer_turno, timer_conexao, wo, coluna, linha, entrada, inicios,
                 limpou,
                 expiracoes, interrupcoes>>

\* self.minha_vez.clear()
LimparSinal(p) ==
  /\ EmJ
  /\ pc[p] = "limpar_sinal"
  /\ minha_vez' = [minha_vez EXCEPT ![p] = FALSE]
  /\ pc' = [pc EXCEPT ![p] = "loop"]
  /\ UNCHANGED <<jogadores, dono, vez, vencedor, motivo_vitoria, tabuleiro_remoto,
                 lock_reinicio, eleicao, tabuleiro, jogo_acabou, timer_turno,
                 timer_conexao, wo, coluna, linha, fila, armado, entrada, inicios,
                 limpou,
                 expiracoes, interrupcoes>>

\* assistir: self.jogo_acabou.wait()
Aguardar(p) ==
  /\ EmJ
  /\ pc[p] = "aguardar"
  /\ jogo_acabou[p]
  /\ pc' = [pc EXCEPT ![p] = "resultado"]
  /\ UNCHANGED <<jogadores, dono, vez, vencedor, motivo_vitoria, tabuleiro_remoto,
                 lock_reinicio, eleicao, tabuleiro, jogo_acabou, minha_vez,
                 timer_turno, timer_conexao, wo, coluna, linha, fila, armado,
                 entrada, inicios, limpou,
                 expiracoes, interrupcoes>>

\* _mostrar_resultado
MostrarResultado(p) ==
  /\ EmJ
  /\ pc[p] = "resultado"
  /\ tabuleiro' = [tabuleiro EXCEPT ![p] = tabuleiro_remoto]
  /\ pc' = [pc EXCEPT ![p] = "fim"]
  /\ UNCHANGED <<jogadores, dono, vez, vencedor, motivo_vitoria, tabuleiro_remoto,
                 lock_reinicio, eleicao, jogo_acabou, minha_vez, timer_turno,
                 timer_conexao, wo, coluna, linha, fila, armado, entrada, inicios,
                 limpou,
                 expiracoes, interrupcoes>>

\* the process ends: the session is closed, its ephemeral znodes (presence
\* marker, lock nodes) go away and its threads die with it
Encerrar(p) ==
  /\ pc' = [pc EXCEPT ![p] = "off"]
  /\ tabuleiro' = [tabuleiro EXCEPT ![p] = TabuleiroVazio]
  /\ jogo_acabou' = [jogo_acabou EXCEPT ![p] = FALSE]
  /\ minha_vez' = [minha_vez EXCEPT ![p] = FALSE]
  /\ timer_turno' = [timer_turno EXCEPT ![p] = "none"]
  /\ timer_conexao' = [timer_conexao EXCEPT ![p] = "none"]
  /\ wo' = [wo EXCEPT ![p] = [m \in {"tempo", "desconexao"} |-> "idle"]]
  /\ coluna' = [coluna EXCEPT ![p] = -1]
  /\ linha' = [linha EXCEPT ![p] = -1]
  /\ limpou' = [limpou EXCEPT ![p] = FALSE]
  /\ lock_reinicio' = IF lock_reinicio = p THEN None ELSE lock_reinicio
  /\ eleicao' = IF eleicao = p THEN None ELSE eleicao
  /\ LET registrado == p # espectador /\ dono[Id(p)] = p
         f == IF registrado THEN NovaFila("jogadores") ELSE fila
         a == IF registrado THEN NovoArmado("jogadores") ELSE armado
     IN /\ jogadores' = IF registrado THEN jogadores \ {Id(p)} ELSE jogadores
        /\ dono' = IF registrado THEN [dono EXCEPT ![Id(p)] = None] ELSE dono
        /\ fila' = [f EXCEPT ![p] = <<>>]
        /\ armado' = [a EXCEPT ![p] = {}]
  /\ UNCHANGED <<vez, vencedor, motivo_vitoria, tabuleiro_remoto, entrada,
                 inicios>>

\* finally: jogo.fechar()
Fechar(p) ==
  /\ EmJ
  /\ pc[p] \in {"fim", "fim_erro"}
  /\ UNCHANGED <<expiracoes, interrupcoes>>
  /\ Encerrar(p)

\* except KeyboardInterrupt: ... finally: jogo.fechar()
Interromper(p) ==
  /\ EmJ
  /\ pc[p] \notin {"off", "fim", "fim_erro"}
  /\ interrupcoes < cenario.interrupcoes
  /\ interrupcoes' = interrupcoes + 1
  /\ UNCHANGED expiracoes
  /\ Encerrar(p)

NextJ ==
  \/ \E p \in Procs : Construir(p)
  \/ \E p \in Participantes :
       \/ AdquirirLock(p) \/ VerificarJogadores(p)
       \/ LimparVencedor(p) \/ LimparVez(p) \/ LimparMotivo(p)
       \/ LimparTabuleiro(p) \/ LimparJogadores(p) \/ Recarregar(p)
       \/ Registrar(p) \/ Barreira(p) \/ VerificarVez(p)
       \/ EntrarEleicao(p) \/ DefinirPrimeiroJogador(p)
       \/ InstalarVez(p) \/ InstalarJogadores(p)
       \/ Loop(p) \/ Carregar(p) \/ Entrada(p) \/ SoltarPeca(p)
       \/ Publicar(p) \/ PublicarVencedor(p) \/ LimparSinal(p)
       \/ ExpirarTurno(p) \/ ExpirarConexao(p)
       \/ \E m \in {"tempo", "desconexao"} : WoMotivo(p, m) \/ WoVencedor(p, m)
  \/ InstalarTabuleiro(espectador)
  \/ Aguardar(espectador)
  \/ \E p \in Procs :
       \/ InstalarVencedor(p) \/ Despachar(p) \/ MostrarResultado(p)
       \/ Fechar(p) \/ Interromper(p)

(***************************************************************************)
(*                    Connect4Game (src/src/connect4.py)                   *)
(***************************************************************************)
\* a game that fills the board without four in a row: its first 40 moves
Empate ==
  <<0, 3, 3, 0, 0, 3, 3, 0, 0, 3, 3, 0, 1, 1, 1, 1, 1, 1, 2, 2, 2, 2, 2, 2,
    4, 4, 4, 4, 4, 4, 5, 5, 5, 5, 5, 5, 6, 6, 6, 6>>

\* the board after the moves js, player1 moving first: the k-th piece dropped
\* in a column lies k-1 cells above the bottom row
Jogar(js) ==
  [r \in 0..(Linhas - 1) |-> [c \in 0..(Colunas - 1) |->
     LET na_coluna == {i \in 1..Len(js) : js[i] = c}
         abaixo(i) == Cardinality({k \in na_coluna : k < i})
         aqui == {i \in na_coluna : abaixo(i) = (Linhas - 1) - r}
     IN  IF aqui = {} THEN None
         ELSE IF (CHOOSE i \in aqui : TRUE) % 2 = 1 THEN player1 ELSE player2]]

\* initialize_znodes has run: every znode holds its default payload, or what
\* earlier sessions left in it
InitG ==
  /\ zk_players = {}
  /\ zk_board = Jogar(cenario.anteriores)
  /\ zk_turn = IF Len(cenario.anteriores) % 2 = 0 THEN player1 ELSE player2
  /\ zk_winner = Vazio
  /\ move_lock = None
  /\ gpc = [p \in Jogadores |-> "off"]
  /\ board = [p \in Jogadores |-> TabuleiroVazio]
  /\ my_turn_event = [p \in Jogadores |-> FALSE]
  /\ game_over_event = [p \in Jogadores |-> FALSE]
  /\ col = [p \in Jogadores |-> -1]
  /\ row = [p \in Jogadores |-> -1]
  /\ gfila = [p \in Jogadores |-> <<>>]
  /\ garmado = [p \in Jogadores |-> {}]
  /\ gentrada = [p \in Jogadores |-> cenario.entrada[p]]
  /\ ginicios = [p \in Jogadores |-> 0]
  /\ ginterrupcoes = 0

GNovaFila(no) ==
  [q \in Jogadores |-> IF no \in garmado[q] THEN Append(gfila[q], no)
                                              ELSE gfila[q]]
GNovoArmado(no) == [q \in Jogadores |-> garmado[q] \ {no}]

\* check_winner(row, col): the same four scans over self.board
check_winner(b, player) ==
  \/ \E r \in 0..5, c \in 0..3 :
       b[r][c] = player /\ b[r][c + 1] = player /\ b[r][c + 2] = player
       /\ b[r][c + 3] = player
  \/ \E c \in 0..6, r \in 0..2 :
       b[r][c] = player /\ b[r + 1][c] = player /\ b[r + 2][c] = player
       /\ b[r + 3][c] = player
  \/ \E r \in 0..2, c \in 0..3 :
       b[r][c] = player /\ b[r + 1][c + 1] = player
       /\ b[r + 2][c + 2] = player /\ b[r + 3][c + 3] = player
  \/ \E r \in 3..5, c \in 0..3 :
       b[r][c] = player /\ b[r - 1][c + 1] = player
       /\ b[r - 2][c + 2] = player /\ b[r - 3][c + 3] = player

\* __init__: initialize_znodes finds every znode; self.board = load_board()
GConstruir(p) ==
  /\ EmG
  /\ gpc[p] = "off"
  /\ ginicios[p] < cenario.inicios[p]
  /\ ginicios' = [ginicios EXCEPT ![p] = @ + 1]
  /\ board' = [board EXCEPT ![p] = zk_board]
  /\ gpc' = [gpc EXCEPT ![p] = "create"]
  /\ UNCHANGED <<zk_players, zk_board, zk_turn, zk_winner, move_lock,
                 my_turn_event, game_over_event, col, row, gfila, garmado,
                 gentrada, ginterrupcoes>>

\* play: if not self.zk.exists(player_path): self.zk.create(..., ephemeral)
Create(p) ==
  /\ EmG
  /\ gpc[p] = "create"
  /\ zk_players' = zk_players \cup {p}
  /\ IF p \in zk_players
       THEN UNCHANGED <<gfila, garmado>>
       ELSE /\ gfila' = GNovaFila("players")
            /\ garmado' = GNovoArmado("players")
  /\ gpc' = [gpc EXCEPT ![p] = "wait_for_opponent"]
  /\ UNCHANGED <<zk_board, zk_turn, zk_winner, move_lock, board,
                 my_turn_event, game_over_event, col, row, gentrada, ginicios,
                 ginterrupcoes>>

\* wait_for_opponent
WaitForOpponent(p) ==
  /\ EmG
  /\ gpc[p] = "wait_for_opponent"
  /\ Cardinality(zk_players) >= 2
  /\ gpc' = [gpc EXCEPT ![p] = "watch_board"]
  /\ UNCHANGED <<zk_players, zk_board, zk_turn, zk_winner, move_lock, board,
                 my_turn_event, game_over_event, col, row, gfila, garmado,
                 gentrada, ginicios, ginterrupcoes>>

\* watch_board(data, stat)
WatchBoard(p) ==
  IF ~game_over_event[p]
    THEN board' = [board EXCEPT ![p] = zk_board]
    ELSE UNCHANGED board

\* watch_turn(data, stat)
WatchTurn(p, data) ==
  IF data # Vazio /\ data = p
    THEN my_turn_event' = [my_turn_event EXCEPT ![p] = TRUE]
    ELSE UNCHANGED my_turn_event

\* watch_winner(data, stat)
WatchWinner(p, data) ==
  IF data # Vazio
    THEN game_over_event' = [game_over_event EXCEPT ![p] = TRUE]
    ELSE UNCHANGED game_over_event

\* the three DataWatch decorators of play
InstallWatchBoard(p) ==
  /\ EmG
  /\ gpc[p] = "watch_board"
  /\ WatchBoard(p)
  /\ garmado' = [garmado EXCEPT ![p] = @ \cup {"board"}]
  /\ gpc' = [gpc EXCEPT ![p] = "watch_turn"]
  /\ UNCHANGED <<zk_players, zk_board, zk_turn, zk_winner, move_lock,
                 my_turn_event, game_over_event, col, row, gfila, gentrada,
                 ginicios, ginterrupcoes>>

InstallWatchTurn(p) ==
  /\ EmG
  /\ gpc[p] = "watch_turn"
  /\ WatchTurn(p, zk_turn)
  /\ garmado' = [garmado EXCEPT ![p] = @ \cup {"turn"}]
  /\ gpc' = [gpc EXCEPT ![p] = "watch_winner"]
  /\ UNCHANGED <<zk_players, zk_board, zk_turn, zk_winner, move_lock, board,
                 game_over_event, col, row, gfila, gentrada, ginicios,
                 ginterrupcoes>>

InstallWatchWinner(p) ==
  /\ EmG
  /\ gpc[p] = "watch_winner"
  /\ WatchWinner(p, zk_winner)
  /\ garmado' = [garmado EXCEPT ![p] = @ \cup {"winner"}]
  /\ gpc' = [gpc EXCEPT ![p] = "current_turn"]
  /\ UNCHANGED <<zk_players, zk_board, zk_turn, zk_winner, move_lock, board,
                 my_turn_event, col, row, gfila, gentrada, ginicios,
                 ginterrupcoes>>

\* current_turn, _ = get('/connect4/turn'); if it is me: my_turn_event.set()
CurrentTurn(p) ==
  /\ EmG
  /\ gpc[p] = "current_turn"
  /\ my_turn_event' = [my_turn_event EXCEPT ![p] = @ \/ zk_turn = p]
  /\ gpc' = [gpc EXCEPT ![p] = "loop"]
  /\ UNCHANGED <<zk_players, zk_board, zk_turn, zk_winner, move_lock, board,
                 game_over_event, col, row, gfila, garmado, gentrada, ginicios,
                 ginterrupcoes>>

\* kazoo's dispatcher thread
GDespachar(p) ==
  /\ EmG
  /\ gfila[p] # <<>>
  /\ gfila' = [gfila EXCEPT ![p] = Tail(@)]
  /\ LET no == Head(gfila[p]) IN
       /\ garmado' = [garmado EXCEPT ![p] = @ \cup {no}]
       /\ \/ /\ no = "board"
             /\ WatchBoard(p)
             /\ UNCHANGED <<my_turn_event, game_over_event>>
          \/ /\ no = "turn"
             /\ WatchTurn(p, zk_turn)
             /\ UNCHANGED <<board, game_over_event>>
          \/ /\ no = "winner"
             /\ WatchWinner(p, zk_winner)
             /\ UNCHANGED <<board, my_turn_event>>
  /\ UNCHANGED <<zk_players, zk_board, zk_turn, zk_winner, move_lock, gpc,
                 col, row, gentrada, ginicios, ginterrupcoes>>

\* while not game_over: turn_signaled = wait(1.0); if game_over: break;
\* if turn_signaled: my_turn_event.clear(); self.make_move()
PlayLoop(p) ==
  /\ EmG
  /\ gpc[p] = "loop"
  /\ game_over_event[p] \/ my_turn_event[p]
  /\ IF game_over_event[p]
       THEN /\ gpc' = [gpc EXCEPT ![p] = "final"]
            /\ UNCHANGED my_turn_event
       ELSE /\ gpc' = [gpc EXCEPT ![p] = "move_lock"]
            /\ my_turn_event' = [my_turn_event EXCEPT ![p] = FALSE]
  /\ UNCHANGED <<zk_players, zk_board, zk_turn, zk_winner, move_lock, board,
                 game_over_event, col, row, gfila, garmado, gentrada, ginicios,
                 ginterrupcoes>>

\* make_move: with lock:
AcquireMoveLock(p) ==
  /\ EmG
  /\ gpc[p] = "move_lock"
  /\ move_lock = None
  /\ move_lock' = p
  /\ gpc' = [gpc EXCEPT ![p] = "check_turn"]
  /\ UNCHANGED <<zk_players, zk_board, zk_turn, zk_winner, board,
                 my_turn_event, game_over_event, col, row, gfila, garmado,
                 gentrada, ginicios, ginterrupcoes>>

\* if current_turn.decode() != self.player_id: return
CheckTurn(p) ==
  /\ EmG
  /\ gpc[p] = "check_turn"
  /\ IF zk_turn # p
       THEN /\ move_lock' = None
            /\ gpc' = [gpc EXCEPT ![p] = "loop"]
       ELSE /\ gpc' = [gpc EXCEPT ![p] = "input"]
            /\ UNCHANGED move_lock
  /\ UNCHANGED <<zk_players, zk_board, zk_turn, zk_winner, board,
                 my_turn_event, game_over_event, col, row, gfila, garmado,
                 gentrada, ginicios, ginterrupcoes>>

\* col = int(input(...)); if 0 <= col < 7 and self.board[0][col] is None
Input(p) ==
  /\ EmG
  /\ gpc[p] = "input"
  /\ gentrada[p] # <<>>
  /\ gentrada' = [gentrada EXCEPT ![p] = Tail(@)]
  /\ LET c == Head(gentrada[p]) IN
       IF c >= 0 /\ c < 7 /\ board[p][0][c] = None
         THEN /\ col' = [col EXCEPT ![p] = c]
              /\ gpc' = [gpc EXCEPT ![p] = "drop"]
         ELSE UNCHANGED <<col, gpc>>
  /\ UNCHANGED <<zk_players, zk_board, zk_turn, zk_winner, move_lock, board,
                 row, my_turn_event, game_over_event, gfila, garmado, ginicios,
                 ginterrupcoes>>

\* self.board[row][col] = self.player_id; self.save_board()
Drop(p) ==
  /\ EmG
  /\ gpc[p] = "drop"
  /\ IF LinhaLivre(board[p], col[p]) = -1
       THEN /\ move_lock' = None
            /\ gpc' = [gpc EXCEPT ![p] = "loop"]
            /\ UNCHANGED <<row, board, zk_board, gfila, garmado>>
       ELSE /\ row' = [row EXCEPT ![p] = LinhaLivre(board[p], col[p])]
            /\ board' = [board EXCEPT ![p] = Soltar(@, col[p], p)]
            /\ zk_board' = Soltar(board[p], col[p], p)
            /\ gfila' = GNovaFila("board")
            /\ garmado' = GNovoArmado("board")
            /\ gpc' = [gpc EXCEPT ![p] = "publish"]
            /\ UNCHANGED move_lock
  /\ UNCHANGED <<zk_players, zk_turn, zk_winner, my_turn_event,
                 game_over_event, col, gentrada, ginicios, ginterrupcoes>>

\* if self.check_winner(row, col): set winner, return; else set turn, return
\* (leaving the with block releases move_lock)
Publish(p) ==
  /\ EmG
  /\ gpc[p] = "publish"
  /\ IF check_winner(board[p], p)
       THEN /\ zk_winner' = p
            /\ gfila' = GNovaFila("winner")
            /\ garmado' = GNovoArmado("winner")
            /\ UNCHANGED zk_turn
       ELSE /\ zk_turn' = Outro(p)
            /\ gfila' = GNovaFila("turn")
            /\ garmado' = GNovoArmado("turn")
            /\ UNCHANGED zk_winner
  /\ move_lock' = None
  /\ gpc' = [gpc EXCEPT ![p] = "loop"]
  /\ UNCHANGED <<zk_players, zk_board, board, my_turn_event, game_over_event,
                 col, row, gentrada, ginicios, ginterrupcoes>>

\* after the loop: get winner, self.board = self.load_board(), print
Final(p) ==
  /\ EmG
  /\ gpc[p] = "final"
  /\ board' = [board EXCEPT ![p] = zk_board]
  /\ gpc' = [gpc EXCEPT ![p] = "close"]
  /\ UNCHANGED <<zk_players, zk_board, zk_turn, zk_winner, move_lock,
                 my_turn_event, game_over_event, col, row, gfila, garmado,
                 gentrada, ginicios, ginterrupcoes>>

\* the process ends: game.close() ends the session
GEncerrar(p) ==
  /\ gpc' = [gpc EXCEPT ![p] = "off"]
  /\ board' = [board EXCEPT ![p] = TabuleiroVazio]
  /\ my_turn_event' = [my_turn_event EXCEPT ![p] = FALSE]
  /\ game_over_event' = [game_over_event EXCEPT ![p] = FALSE]
  /\ col' = [col EXCEPT ![p] = -1]
  /\ row' = [row EXCEPT ![p] = -1]
  /\ move_lock' = IF move_lock = p THEN None ELSE move_lock
  /\ LET registrado == p \in zk_players /\ gpc[p] # "create"
         f == IF registrado THEN GNovaFila("players") ELSE gfila
         a == IF registrado THEN GNovoArmado("players") ELSE garmado
     IN /\ zk_players' = IF registrado THEN zk_players \ {p} ELSE zk_players
        /\ gfila' = [f EXCEPT ![p] = <<>>]
        /\ garmado' = [a EXCEPT ![p] = {}]
  /\ UNCHANGED <<zk_board, zk_turn, zk_winner, gentrada, ginicios>>

\* finally: game.close()
Close(p) ==
  /\ EmG
  /\ gpc[p] = "close"
  /\ UNCHANGED ginterrupcoes
  /\ GEncerrar(p)

\* except KeyboardInterrupt: ... finally: game.close()
GInterromper(p) ==
  /\ EmG
  /\ gpc[p] \notin {"off", "close"}
  /\ ginterrupcoes < cenario.interrupcoes
  /\ ginterrupcoes' = ginterrupcoes + 1
  /\ GEncerrar(p)

NextG ==
  \E p \in Jogadores :
       \/ GConstruir(p) \/ Create(p) \/ WaitForOpponent(p)
       \/ InstallWatchBoard(p) \/ InstallWatchTurn(p) \/ InstallWatchWinner(p)
       \/ CurrentTurn(p) \/ GDespachar(p) \/ PlayLoop(p)
       \/ AcquireMoveLock(p) \/ CheckTurn(p) \/ Input(p) \/ Drop(p)
       \/ Publish(p) \/ Final(p) \/ Close(p) \/ GInterromper(p)

CenariosG ==
  { \* a whole game: player1 stacks column 0, player2 column 1
    Cenario(<<0, 0, 7, 0, 0>>, <<1, 1, 1, 1>>, 1, 1, 0, 0, 0),
    \* players leave and come back
    Cenario(<<0, 0>>, <<1>>, MaxInicios, MaxInicios, 0, 0, MaxInterrupcoes),
    \* the last two moves of a game that fills the board, and one more try
    [Cenario(<<6, 0>>, <<6>>, 1, 1, 0, 0, 0) EXCEPT !.anteriores = Empate] }

\* no check has returned yet
SemRetorno == [funcao |-> None, jogador |-> None, valor |-> FALSE]

\* no win check is being looked at on its own
InitV == grade = TabuleiroVazio /\ retorno = SemRetorno

Init ==
  /\ \/ variante = "JogoConnect4" /\ cenario \in Cenarios
     \/ variante = "Connect4Game" /\ cenario \in CenariosG
  /\ InitJ
  /\ InitG
  /\ InitV

Next == NextJ \/ NextG

Spec == Init /\ [][Next]_vars

\* the two programs on their own
InitConnect4Game ==
  /\ variante = "Connect4Game" /\ cenario \in CenariosG
  /\ InitJ
  /\ InitG
  /\ InitV

SpecG == InitConnect4Game /\ [][NextG]_vars

InitJogoConnect4 ==
  /\ variante = "JogoConnect4" /\ cenario \in Cenarios
  /\ InitJ
  /\ InitG
  /\ InitV

SpecJ == InitJogoConnect4 /\ [][NextJ]_vars

\* Connect-4.py with one more run of the users: a whole game, player1
\* stacking column 0 and player2 column 1, during which one timer expires
CenariosDePartida ==
  Cenarios \cup {Cenario(<<0, 0, 0, 0>>, <<1, 1, 1>>, 1, 1, 0, 1, 0)}

InitPartida ==
  /\ variante = "JogoConnect4" /\ cenario \in CenariosDePartida
  /\ InitJ
  /\ InitG
  /\ InitV

SpecPartida == InitPartida /\ [][NextJ]_vars

(* --------------------- the win checks on their own --------------------- *)
Cores == {None, player1, player2}
Direcoes == {<<0, 1>>, <<1, 0>>, <<1, 1>>, <<1, -1>>}

\* the board that is empty but for the cells of the segment of Len(cores)
\* cells starting at (r, c) in direction d, which hold cores
Pintar(r, c, d, cores) ==
  [rr \in 0..(Linhas - 1) |-> [cc \in 0..(Colunas - 1) |->
     LET is == {i \in 1..Len(cores) :
                  rr = r + (i - 1) * d[1] /\ cc = c + (i - 1) * d[2]}
     IN  IF is = {} THEN None ELSE cores[CHOOSE i \in is : TRUE]]]

\* the board that is empty but for four cells that follow each other in
\* the row-by-row order of the cells, from cell k on (they run over the end
\* of a row when k is near it)
PintarCorrido(k, cores) ==
  [rr \in 0..(Linhas - 1) |-> [cc \in 0..(Colunas - 1) |->
     LET i == rr * Colunas + cc - k + 1
     IN  IF i \in 1..4 THEN cores[i] ELSE None]]

\* the boards the checks are tried on at the start: every colouring of every
\* segment of MaxSegmento cells of the grid and of every four cells in a run
Grades ==
  {Pintar(t[1], t[2], t[3], t[4]) :
     t \in {u \in (0..(Linhas - 1)) \X (0..(Colunas - 1)) \X Direcoes
                  \X [1..MaxSegmento -> Cores] :
              /\ u[1] + (MaxSegmento - 1) * u[3][1] \in 0..(Linhas - 1)
              /\ u[2] + (MaxSegmento - 1) * u[3][2] \in 0..(Colunas - 1)}}
  \cup {PintarCorrido(k, cores) :
          k \in 0..(Linhas * Colunas - 4), cores \in [1..4 -> Cores]}

Pecas(b) ==
  Cardinality({t \in (0..(Linhas - 1)) \X (0..(Colunas - 1)) :
                 b[t[1]][t[2]] # None})

\* no cell of b hangs over an empty one
Assentado(b) ==
  \A r \in 0..(Linhas - 2), c \in 0..(Colunas - 1) :
    b[r][c] # None => b[r + 1][c] # None

InitGanhou ==
  /\ variante = "verificacao" /\ cenario \in {Cenario(<<>>, <<>>, 0, 0, 0, 0, 0)}
  /\ InitJ
  /\ InitG
  /\ grade \in Grades
  /\ retorno = SemRetorno

EmV == variante = "verificacao" /\ UNCHANGED <<variante, cenario, varsJ, varsG>>

\* self.tabuleiro[linha][coluna] = self.meu_id on the first free row, as in
\* a game: on a board without holes, while it has fewer than MaxPecas pieces
SoltarNaGrade(c, j) ==
  /\ EmV
  /\ Assentado(grade) /\ Pecas(grade) < MaxPecas
  /\ LinhaLivre(grade, c) # -1
  /\ grade' = Soltar(grade, c, j)
  /\ retorno' = SemRetorno

\* JogoConnect4._verificar_se_ganhei() with meu_id = j
VerificarSeGanhei(j) ==
  /\ EmV
  /\ retorno' = [funcao |-> "_verificar_se_ganhei", jogador |-> j,
                 valor |-> Ganhou(grade, j)]
  /\ UNCHANGED grade

\* Connect4Game.check_winner(row, col) with player_id = j
CheckWinner(j) ==
  /\ EmV
  /\ retorno' = [funcao |-> "check_winner", jogador |-> j,
                 valor |-> check_winner(grade, j)]
  /\ UNCHANGED grade

NextGanhou ==
  \E j \in Jogadores :
    \/ \E c \in 0..(Colunas - 1) : SoltarNaGrade(c, j)
    \/ VerificarSeGanhei(j)
    \/ CheckWinner(j)

SpecGanhou == InitGanhou /\ [][NextGanhou]_vars

\* the steps the main thread of p takes on its own; typing a column is left
\* to the user, the poll of jogo_acabou made while waiting for it is not
PassoPrincipal(p) ==
  \/ AdquirirLock(p) \/ VerificarJogadores(p)
  \/ LimparVencedor(p) \/ LimparVez(p) \/ LimparMotivo(p)
  \/ LimparTabuleiro(p) \/ LimparJogadores(p) \/ Recarregar(p)
  \/ Registrar(p) \/ Barreira(p) \/ VerificarVez(p)
  \/ EntrarEleicao(p) \/ DefinirPrimeiroJogador(p)
  \/ InstalarVez(p) \/ InstalarVencedor(p) \/ InstalarJogadores(p)
  \/ InstalarTabuleiro(p) \/ Aguardar(p)
  \/ Loop(p) \/ Carregar(p) \/ SoltarPeca(p)
  \/ Publicar(p) \/ PublicarVencedor(p) \/ LimparSinal(p)
  \/ (Entrada(p) /\ jogo_acabou[p] /\ pc'[p] = "limpar_sinal")
  \/ MostrarResultado(p) \/ Fechar(p)

\* the steps of the timer threads of p
PassoTimer(p) ==
  \/ ExpirarTurno(p) \/ ExpirarConexao(p)
  \/ \E m \in {"tempo", "desconexao"} : WoMotivo(p, m) \/ WoVencedor(p, m)

\* JogoConnect4 with its threads scheduled fairly: the main thread, the kazoo
\* dispatcher thread and the timer threads of every process keep running;
\* launching, interrupting and typing are up to the user
SpecJusto ==
  /\ SpecJ
  /\ \A p \in Procs :
       /\ WF_vars(PassoPrincipal(p))
       /\ WF_vars(Despachar(p))
       /\ WF_vars(PassoTimer(p))

(***************************************************************************)
(*                              Properties                                 *)
(***************************************************************************)

\* C1: within one match the winner entry is written once: a non-empty
\* winner is never replaced by another non-empty value.
C1_VencedorEscritoUmaVez ==
  [][/\ (vencedor # Vazio /\ vencedor' # Vazio => vencedor' = vencedor)
     /\ (zk_winner # Vazio /\ zk_winner' # Vazio => zk_winner' = zk_winner)]_vars

\* a participant is inside its move: the board is loaded (Connect-4.py) or
\* move_lock is held and the turn is confirmed (connect4.py), and neither
\* vez/turn nor vencedor/winner has been written yet
EmJogada(p) == pc[p] \in {"entrada", "soltar", "publicar", "publicar_vencedor"}
InFlight(p) == gpc[p] \in {"input", "drop", "publish"}

\* C2: at most one move is in flight at any time across both participants.
C2_UmaJogadaEmCurso ==
  /\ ~(EmJogada(player1) /\ EmJogada(player2))
  /\ ~(InFlight(player1) /\ InFlight(player2))

\* every piece of board b is also on board b2
Contem(b2, b) ==
  \A r \in 0..(Linhas - 1), c \in 0..(Colunas - 1) :
    b[r][c] # None => b2[r][c] = b[r][c]

\* the step in which p's election callback writes vez
EscreveEleicao(p) == pc[p] = "lider" /\ pc'[p] = "obs_vez"

\* C3: the election writes vez once: an election callback writes vez only
\* while vez is still empty, so the second contender's callback never writes
\* it after the first one did.
C3_EleicaoEscreveUmaVez ==
  [][\A p \in Jogadores : EscreveEleicao(p) => vez = Vazio]_vars

PublicaJogada(p) ==
  \/ pc[p] = "publicar" /\ pc'[p] = "limpar_sinal"
  \/ pc[p] = "publicar_vencedor" /\ pc'[p] = "limpar_sinal"
PublishesMove(p) == gpc[p] = "publish" /\ gpc'[p] = "loop"
\* the steps in which p writes the board of its move
EscreveTabuleiro(p) == pc[p] = "soltar" /\ pc'[p] = "publicar"
WritesBoard(p) == gpc[p] = "drop" /\ gpc'[p] = "publish"

\* C5: the board write of a move precedes its turn (or winner) write: when a
\* participant publishes turn or winner the shared board holds the piece of
\* that move, and the board a participant builds its own move on holds every
\* piece persisted so far, the opponent's last one included.
C5_TabuleiroAntesDaVez ==
  [][\A p \in Jogadores :
       /\ PublicaJogada(p) => tabuleiro_remoto[linha[p]][coluna[p]] = p
       /\ PublishesMove(p) => zk_board[row[p]][col[p]] = p
       /\ EscreveTabuleiro(p) => Contem(tabuleiro[p], tabuleiro_remoto)
       /\ WritesBoard(p) => Contem(board[p], zk_board)]_vars

\* the step in which p's _observar_jogadores callback runs while the game is
\* not over, sees n or more markers, and its grace timer is still waiting
ObservaVolta(p) ==
  /\ fila[p] # <<>> /\ Head(fila[p]) = "jogadores"
  /\ fila'[p] = Tail(fila[p]) /\ pc'[p] = pc[p]
  /\ ~jogo_acabou[p]
  /\ Cardinality(jogadores) >= 2
  /\ timer_conexao[p] = "running"

\* the step in which p's grace timer expires and commits to recording
ExpiraConexao(p) ==
  timer_conexao[p] = "running" /\ timer_conexao'[p] = "firing"

\* C6 as stated: a grace timer does not record an outcome once the registry
\* is back at two markers: it only expires into _vencer_por_wo while the
\* registry holds fewer than two.
C6_VoltaAntesDeExpirar ==
  [][\A p \in Jogadores : ExpiraConexao(p) => Cardinality(jogadores) < 2]_vars

\* C6 amended: when the _observar_jogadores callback sees two or more
\* markers while its grace timer is still waiting and the game is not over,
\* it cancels the timer; a cancelled timer never expires, and an outcome
\* with reason desconexao is only being recorded by a timer that expired.
C6_VoltaObservadaCancela ==
  [][\A p \in Jogadores :
       /\ ObservaVolta(p) => timer_conexao'[p] = "dead"
       /\ timer_conexao'[p] = "firing" => Vivo(timer_conexao[p])
       /\ wo'[p]["desconexao"] # "idle" => timer_conexao'[p] = "firing"]_vars

\* the opponent is back, the grace timer was cancelled by the callback (no
\* timer has expired and the game is not over) and the game goes on
C6_Witness ==
  \E p \in Jogadores :
    /\ timer_conexao[p] = "dead" /\ expiracoes = 0
    /\ ~jogo_acabou[p] /\ vencedor = Vazio
    /\ jogadores = Jogadores
    /\ pc[Outro(p)] \in {"loop", "carregar", "entrada"}

\* the step in which p's session runs the callback of znode no: a dispatch
\* by the kazoo thread, or the first call made when the watch is set
Observa(p, no) ==
  \/ /\ fila[p] # <<>> /\ Head(fila[p]) = no
     /\ fila'[p] = Tail(fila[p]) /\ pc'[p] = pc[p]
  \/ /\ pc[p] = "obs_" \o no
     /\ pc'[p] \notin {pc[p], "off"}

\* what the callbacks of p observe in this step
ObservaVez(p) == Observa(p, "vez") /\ vez # Vazio /\ ~jogo_acabou[p]
ObservaVencedor(p) ==
  Observa(p, "vencedor") /\ vencedor # Vazio /\ ~jogo_acabou[p]
ObservaQueda(p) ==
  /\ Observa(p, "jogadores") /\ ~jogo_acabou[p]
  /\ Cardinality(jogadores) < 2 /\ ~Vivo(timer_conexao[p])

\* the step in which p's waiting turn timer is cancelled
CancelaTurno(p) ==
  /\ timer_turno[p] = "running" /\ timer_turno'[p] = "dead"
  /\ expiracoes' = expiracoes
\* the step in which p's waiting turn timer expires
ExpiraTurno(p) ==
  /\ timer_turno[p] = "running" /\ timer_turno'[p] \in {"firing", "dead"}
  /\ expiracoes' = expiracoes + 1

\* C7 as stated: a waiting turn timer is cancelled exactly when its
\* participant observes a new vez value or a non-empty vencedor, and every
\* expiry of the timer goes on to record an outcome.
C7_CancelaSoPorVezOuVencedor ==
  [][\A p \in Jogadores :
       /\ CancelaTurno(p) => ObservaVez(p) \/ ObservaVencedor(p)
       /\ (ObservaVez(p) \/ ObservaVencedor(p)) /\ timer_turno[p] = "running"
            => timer_turno'[p] \in {"dead", "running"}
       /\ ExpiraTurno(p) => timer_turno'[p] = "firing"]_vars

\* C7 amended: a waiting turn timer is cancelled exactly when its
\* participant, with its game-over flag unset, observes a non-empty vez, a
\* non-empty vencedor, or fewer than two registry markers while no grace
\* timer is alive; after a vez naming the opponent a fresh timer is started;
\* an expiry records an outcome exactly when it reads vencedor empty.
C7_CancelamentoDoTimerDeTurno ==
  [][\A p \in Jogadores :
       /\ CancelaTurno(p) =>
            ObservaVez(p) \/ ObservaVencedor(p) \/ ObservaQueda(p)
       /\ (ObservaVencedor(p) \/ ObservaQueda(p)) /\ timer_turno[p] = "running"
            => timer_turno'[p] = "dead"
       /\ ObservaVez(p) /\ timer_turno[p] = "running"
            => timer_turno'[p] = IF vez = p THEN "dead" ELSE "running"
       /\ ExpiraTurno(p) =>
            (timer_turno'[p] = "firing" <=> vencedor = Vazio)]_vars

\* the opponent's marker is gone, the callback has cancelled p's turn timer
\* and started the grace timer, while vez still names the opponent
C7_Witness ==
  \E p \in Jogadores :
    /\ timer_turno[p] = "dead" /\ timer_conexao[p] = "running"
    /\ expiracoes = 0 /\ ~jogo_acabou[p]
    /\ vez = Outro(p) /\ fila[p] = <<>>

\* no empty cell is left on board b
Cheio(b) == \A c \in 0..(Colunas - 1) : b[0][c] # None
\* one of the three conditions that end a match holds on board b
Terminal(b) == Ganhou(b, player1) \/ Ganhou(b, player2) \/ Cheio(b)

\* C8: once four-in-a-row for either participant or a full board holds no
\* further move is requested: no participant stands at the column prompt
\* while the shared board is in one of these terminal conditions.
C8_SemJogadaAposFim ==
  \A p \in Jogadores :
    /\ pc[p] = "entrada" => ~Terminal(tabuleiro_remoto)
    /\ gpc[p] = "input" => ~Terminal(zk_board)

\* on board b no occupied cell has an empty cell below it
Gravidade(b) ==
  \A r \in 0..(Linhas - 2), c \in 0..(Colunas - 1) :
    b[r][c] # None => b[r + 1][c] # None

\* C9: in every column of the shared board the occupied cells form a run
\* that starts at the bottom row; the same holds of every participant's
\* loaded copy of the board.
C9_SemBuracos ==
  /\ Gravidade(tabuleiro_remoto)
  /\ Gravidade(zk_board)
  /\ \A p \in Procs : Gravidade(tabuleiro[p])
  /\ \A p \in Jogadores : Gravidade(board[p])

\* both participants have stacked pieces: four of player1 in column 0 next
\* to three of player2 in column 1
C9_Witness ==
  /\ tabuleiro_remoto[2][0] = player1
  /\ tabuleiro_remoto[3][1] = player2
  /\ tabuleiro_remoto[2][1] = None

\* p holds a session that takes part in the match: a registered participant
\* or the running observer
Conectado(p) ==
  IF p = espectador THEN pc[p] # "off" ELSE p \in jogadores /\ pc[p] # "off"

\* p has set its game-over flag, none of its timers is alive and it is out
\* of its main loop, or its process has ended
Saiu(p) ==
  \/ pc[p] = "off"
  \/ /\ jogo_acabou[p]
     /\ ~Vivo(timer_turno[p]) /\ ~Vivo(timer_conexao[p])
     /\ pc[p] \in {"resultado", "fim"}

\* C10: once vencedor is non-empty every connected participant and the
\* observer eventually has its game-over flag set, no timer alive, and has
\* left its main loop.
C10_TodosSaem ==
  \A p \in Procs : (vencedor # Vazio /\ Conectado(p)) ~> Saiu(p)

\* the step in which process q finds the marker of its identity in place
\* (NodeExistsError), and the positions of a process that has registered
FalhaRegistro(q) == pc[q] = "registrar" /\ pc'[q] = "fim_erro"
Joga(q) ==
  pc[q] \in {"barreira", "verificar_vez", "eleicao", "lider", "obs_vez",
             "obs_vencedor", "obs_jogadores", "loop", "carregar", "entrada",
             "soltar", "publicar", "publicar_vencedor", "limpar_sinal",
             "resultado"}

\* C11: a process that finds the marker of its identity already in the
\* registry fails there: it goes on to nothing but closing, and the failure
\* and the close leave board, vez, vencedor and the marker as they are; so
\* two live processes never play under one identity.
C11_UmProcessoPorIdentidade ==
  [][/\ \A q \in Participantes :
          /\ pc[q] = "registrar" /\ Id(q) \in jogadores
               => pc'[q] \in {"registrar", "fim_erro", "off"}
          /\ pc[q] = "fim_erro" => pc'[q] \in {"fim_erro", "off"}
          /\ FalhaRegistro(q) \/ (pc[q] = "fim_erro" /\ pc'[q] = "off")
               => UNCHANGED <<tabuleiro_remoto, vez, vencedor, jogadores, dono>>
     /\ ~(Joga(player1) /\ Joga(duplicado))']_vars

\* the steps that end a declaration by writing vencedor: the timer thread of
\* q declaring reason m, and the main thread of q declaring four-in-a-row
DeclaraWo(q, m) ==
  wo[q][m] = "vencedor" /\ wo'[q][m] = "idle" /\ pc'[q] = pc[q]
DeclaraVitoria(q) == pc[q] = "publicar_vencedor" /\ pc'[q] = "limpar_sinal"

\* C12: a non-empty vencedor always stands with the reason of the
\* declaration that wrote it: the reason is one of vitoria, tempo,
\* desconexao, it is the declaration's own at the moment vencedor is
\* written, and it is not rewritten while that vencedor stands.
C12_MotivoDoMesmoVencedor ==
  [][/\ vencedor' # Vazio =>
          motivo_vitoria' \in {"vitoria", "tempo", "desconexao"}
     /\ \A q \in Participantes :
          /\ DeclaraVitoria(q) => motivo_vitoria' = "vitoria"
          /\ \A m \in {"tempo", "desconexao"} :
               DeclaraWo(q, m) => motivo_vitoria' = m
     /\ vencedor # Vazio /\ vencedor' = vencedor
          => motivo_vitoria' = motivo_vitoria]_vars

\* C13: a piece is put on the shared board only by the participant that
\* vez/turn names at the moment of the board write.
C13_SoJogaNaSuaVez ==
  [][/\ \A p \in Participantes : EscreveTabuleiro(p) => vez = Id(p)
     /\ \A p \in Jogadores : WritesBoard(p) => zk_turn = p]_vars

\* board b holds four cells of j in a row in some window of length 4 of the
\* grid: horizontal, vertical, diagonal or anti-diagonal
QuatroEmLinha(b, j) ==
  \E r \in 0..(Linhas - 1), c \in 0..(Colunas - 1),
     d \in {<<0, 1>>, <<1, 0>>, <<1, 1>>, <<1, -1>>} :
    /\ r + 3 * d[1] \in 0..(Linhas - 1)
    /\ c + 3 * d[2] \in 0..(Colunas - 1)
    /\ \A i \in 0..3 : b[r + i * d[1]][c + i * d[2]] = j

\* the step in which p, its board saved, writes reason or vez
PublicaMotivoOuVez(p) ==
  pc[p] = "publicar" /\ pc'[p] \in {"publicar_vencedor", "limpar_sinal"}

\* C14: a move that completes four-in-a-row writes the reason vitoria and
\* vencedor = self and leaves vez as it is; a move that does not writes vez
\* = the other player and leaves vencedor and the reason as they are
\* (winner and turn in connect4.py, which has no reason entry).
C14_EfeitoDaJogada ==
  [][/\ \A p \in Participantes :
          /\ PublicaMotivoOuVez(p) =>
               IF QuatroEmLinha(tabuleiro[p], Id(p))
                 THEN /\ motivo_vitoria' = "vitoria" /\ vez' = vez
                      /\ pc'[p] = "publicar_vencedor"
                 ELSE /\ vez' = Outro(p) /\ vencedor' = vencedor
                      /\ motivo_vitoria' = motivo_vitoria
          /\ DeclaraVitoria(p) =>
               vencedor' = Id(p) /\ vez' = vez
               /\ motivo_vitoria' = motivo_vitoria
     /\ \A p \in Jogadores :
          PublishesMove(p) =>
            IF QuatroEmLinha(board[p], p)
              THEN zk_winner' = p /\ zk_turn' = zk_turn
              ELSE zk_turn' = Outro(p) /\ zk_winner' = zk_winner]_vars

\* player1 has just declared its four-in-a-row: the reason and the winner
\* are written and vez still holds what player2's last move wrote
C14_Witness ==
  /\ pc[player1] = "limpar_sinal"
  /\ QuatroEmLinha(tabuleiro_remoto, player1)
  /\ vencedor = player1 /\ motivo_vitoria = "vitoria" /\ vez = player1

\* a turn-timeout expiry of q writes the reason or the winner
EscreveTempo(q) ==
  /\ wo[q]["tempo"] \in {"motivo", "vencedor"}
  /\ wo'[q]["tempo"] # wo[q]["tempo"]
  /\ pc'[q] = pc[q]

\* C15: whenever the turn-timeout expiry of a participant writes the outcome
\* (reason tempo, winner = that participant), vez names the other
\* participant at that moment.
C15_TempoSoNaVezDoOutro ==
  [][\A q \in Participantes : EscreveTempo(q) => vez = Outro(q)]_vars

\* p performs one write or delete of _limpar_para_novo_jogo
ExecutaReset(p) ==
  /\ pc[p] \in {"limpar_vencedor", "limpar_vez", "limpar_motivo",
                "limpar_tabuleiro", "limpar_jogadores"}
  /\ pc'[p] \in {"limpar_vez", "limpar_motivo", "limpar_tabuleiro",
                 "limpar_jogadores", "recarregar"}

\* C16: at every write or delete performed by _limpar_para_novo_jogo no
\* participant is registered, so the reset never deletes a presence marker.
C16_ResetSoComRegistroVazio ==
  [][\A p \in Participantes :
       ExecutaReset(p) => jogadores = {} /\ jogadores' = {}]_vars

\* a disconnection-grace expiry of q writes the reason or the winner
EscreveDesconexao(q) ==
  /\ wo[q]["desconexao"] \in {"motivo", "vencedor"}
  /\ wo'[q]["desconexao"] # wo[q]["desconexao"]
  /\ pc'[q] = pc[q]

\* C17: a participant that observes fewer than two markers while its game
\* is not over starts its grace timer and cancels its turn timer; the
\* expiry of the grace timer writes nothing once a winner is recorded, and
\* when it declares, vencedor is the remaining participant and the reason is
\* desconexao.
C17_VitoriaPorDesconexao ==
  [][\A q \in Participantes :
       /\ ObservaQueda(q) =>
            timer_conexao'[q] = "running" /\ timer_turno'[q] # "running"
       /\ EscreveDesconexao(q) => vencedor = Vazio
       /\ DeclaraWo(q, "desconexao") =>
            vencedor' = Id(q) /\ motivo_vitoria' = "desconexao"]_vars

\* the board after n drops of j in column c of the empty board
RECURSIVE Pilha(_, _, _)
Pilha(c, j, n) ==
  IF n = 0 THEN TabuleiroVazio ELSE Soltar(Pilha(c, j, n - 1), c, j)

\* C18: the win check for identity P returns true exactly when the board
\* holds four cells of P in a row in some horizontal, vertical, diagonal or
\* anti-diagonal window of length 4 of the grid; on the empty board it is
\* false after P's 3rd drop in one column and true after the 4th.
C18_QuatroEmLinha ==
  retorno.funcao # None =>
    /\ retorno.valor = QuatroEmLinha(grade, retorno.jogador)
    /\ \A c \in 0..(Colunas - 1) :
         /\ grade = Pilha(c, retorno.jogador, 3) => ~retorno.valor
         /\ grade = Pilha(c, retorno.jogador, 4) => retorno.valor

\* _verificar_se_ganhei has returned true after player1's 4th drop in
\* column 0 of the empty board
C18_Witness ==
  /\ retorno.funcao = "_verificar_se_ganhei" /\ retorno.jogador = player1
  /\ grade = Pilha(0, player1, 4) /\ grade # TabuleiroVazio
  /\ retorno.valor

\* the step in which the main loop of p lowers its turn signal after
\* _fazer_minha_jogada has returned
BaixaSinal(p) == pc[p] = "limpar_sinal" /\ pc'[p] = "loop"

\* a notification of vez is still to be dispatched to p
AvisoDeVezPendente(p) == \E i \in 1..Len(fila[p]) : fila[p][i] = "vez"

\* C19: no turn signal is lost: when the main loop of P lowers the signal
\* while vez names P and no winner is recorded, a notification of vez is
\* still on its way to P, so the signal is raised again and P enters
\* _fazer_minha_jogada for that turn.
C19_SinalNaoSePerde ==
  [][\A p \in Participantes :
       BaixaSinal(p) /\ vez = Id(p) /\ vencedor = Vazio
         => AvisoDeVezPendente(p)]_vars

\* the step in which p, its move not a winning one, writes vez
EscreveVez(p) == pc[p] = "publicar" /\ pc'[p] = "limpar_sinal"

\* C20: once the winner entry is non-empty no participant writes the board
\* or the turn by a move or an election; only the writes of the new-match
\* reset, which empties the winner first, follow.
C20_FimEstavel ==
  [][/\ vencedor # Vazio =>
          \A p \in Participantes :
            ~EscreveTabuleiro(p) /\ ~EscreveVez(p) /\ ~EscreveEleicao(p)
     /\ zk_winner # Vazio =>
          \A p \in Jogadores :
            ~WritesBoard(p) /\ ~(PublishesMove(p) /\ zk_turn' # zk_turn)]_vars

\* C21: whenever the winner entry names P and the recorded reason is
\* four-in-a-row, the shared board holds four cells of P in a row
\* (connect4.py records no reason: its winner entry is only written by a
\* move whose win check returned true).
C21_LinhaVencedoraNoTabuleiro ==
  /\ \A j \in Jogadores :
       vencedor = j /\ motivo_vitoria = "vitoria"
         => QuatroEmLinha(tabuleiro_remoto, j)
  /\ \A j \in Jogadores : zk_winner = j => QuatroEmLinha(zk_board, j)

\* C22: two participants of distinct identities that have both registered
\* and are connected are not left waiting at the barrier: when both are at
\* the barrier both presence markers are registered, so each of them finds
\* two markers at its next poll and goes on to the main loop.
C22_NinguemPresoNaBarreira ==
  /\ pc[player1] = "barreira" /\ pc[player2] = "barreira"
       => jogadores = Jogadores
  /\ gpc[player1] = "wait_for_opponent" /\ gpc[player2] = "wait_for_opponent"
       => zk_players = Jogadores
====
